---- MODULE Spec2Model ----
(***************************************************************************)
(* Model of scripts/generate_employees_csv.py: the size-bounded, buffered  *)
(* CSV generation loop of main(), the row synthesis of _make_row and       *)
(* _rand_date, and the text file object the loop writes through.           *)
(*                                                                         *)
(* Strings are TLA+ strings; every character of the output is ASCII, so    *)
(* len(row.encode("utf-8")) is Len(row).                                   *)
(*                                                                         *)
(* The file object returned by open() is buffered: f.write() appends to    *)
(* the object's own buffer (fbuf) and only f.flush() / f.close() hand the  *)
(* bytes to the operating system (disk).  os.path.getsize() reports the    *)
(* length of disk.  Every f.write() of rows is followed by f.flush()       *)
(* before the next size query, and the header is far shorter than the      *)
(* object's buffer, so a spill of fbuf before flush() is never visible at  *)
(* a size query.                                                           *)
(***************************************************************************)
EXTENDS Integers, Sequences, FiniteSets, TLC

VARIABLES
    target_bytes,  \* args.bytes
    flush_bytes,   \* args.flush_bytes
    seed,          \* args.seed
    pc,            \* position of main()
    rng,           \* state of the random.Random instance
    disk,          \* bytes of the output file as the operating system has them
    fbuf,          \* bytes written to f and not yet flushed
    i,             \* id counter
    buf,           \* list of buffered rows
    buf_bytes,     \* running byte count of buf
    row,           \* the candidate row of the current iteration
    candidates,    \* history: every candidate row generated, in order
    accepted,      \* history: rows appended to buf, in order
    trace,         \* history: the accept / flush / stop steps taken
    runNo,         \* which invocation of the program this is
    prevDisk,      \* the file left by the previous invocation
    prevTrace,     \* the steps of the previous invocation
    prevFlush      \* the flush threshold of the previous invocation

vars == <<target_bytes, flush_bytes, seed, pc, rng, disk, fbuf, i, buf,
          buf_bytes, row, candidates, accepted, trace, runNo, prevDisk,
          prevTrace, prevFlush>>

----------------------------------------------------------------------------
(* Bounds of the model *)

MaxSeed == 2
NegTargets == 1
MaxTarget == 160
NegFlush == 1
FlushStep == 40
MaxFlushMult == 3

Seeds == 1..MaxSeed
Targets == (0 - NegTargets)..MaxTarget
FlushChoices == ((0 - NegFlush)..1) \cup {FlushStep * k : k \in 1..MaxFlushMult}

----------------------------------------------------------------------------
(* Static data tables *)

FIRST_NAMES ==
    <<"Alice", "Bob", "Carol", "David", "Eva", "Frank", "Grace", "Henry",
      "Ivy", "Jack", "Liam", "Mia", "Noah", "Olivia", "Priya", "Quinn",
      "Rosa", "Sam", "Tina", "Uma", "Victor", "Wen", "Xavier", "Yara", "Zoe">>

LAST_NAMES ==
    <<"Johnson", "Martinez", "Lee", "Kim", "Smith", "Zhao", "Patel", "Nguyen",
      "Chen", "Brown", "Davis", "Wilson", "Garcia", "Hernandez", "Lopez",
      "Gonzalez", "Anderson", "Thomas", "Taylor", "Moore">>

DEPARTMENTS ==
    <<"Engineering", "Sales", "Marketing", "Finance", "HR", "Product",
      "Support", "Operations">>

HEADER == "employee_id,name,department,salary,hire_date\n"

SALARY_MIN == 45000
SALARY_MAX == 220000

----------------------------------------------------------------------------
(* The pseudo-random stream: a deterministic generator whose whole output  *)
(* is a function of the seed.                                              *)

RngModulus == 65537
RngMult == 75
RngInc == 74

RngStep(s) == (RngMult * s + RngInc) % RngModulus

\* mutant: the stream is seeded from something that differs between runs
SeedRngPerRun(s) == RngStep((s + runNo) % RngModulus)

SeedRng(s) == RngStep(s % RngModulus)

RandBelow(s, n) ==
    IF n <= RngModulus THEN s % n ELSE (s * (n \div RngModulus + 1)) % n

Choice(pool, s) == pool[RandBelow(s, Len(pool)) + 1]

RandInt(a, b, s) == a + RandBelow(s, b - a + 1)

----------------------------------------------------------------------------
(* Integer and date formatting *)

\* Op applied to the value of x, with x evaluated once
Eval(x, Op(_)) == CHOOSE r \in {Op(v) : v \in {x}} : TRUE

DIGITS == "0123456789"

DigitChar(d) == SubSeq(DIGITS, d + 1, d + 1)

RECURSIVE IntToStr(_)
IntToStr(n) ==
    IF n < 0 THEN "-" \o IntToStr(0 - n)
    ELSE IF n < 10 THEN DigitChar(n)
    ELSE IntToStr(n \div 10) \o DigitChar(n % 10)

Pad(n, width) ==
    LET s == IntToStr(n)
    IN  SubSeq("0000", 1, width - Len(s)) \o s

IsLeap(y) == (y % 4 = 0 /\ y % 100 # 0) \/ y % 400 = 0

DaysInMonth(y, m) ==
    IF m = 2 THEN (IF IsLeap(y) THEN 29 ELSE 28)
    ELSE IF m \in {4, 6, 9, 11} THEN 30 ELSE 31

DaysBeforeYear(y) ==
    LET p == y - 1
    IN  p * 365 + p \div 4 - p \div 100 + p \div 400

RECURSIVE DaysBeforeMonth(_, _)
DaysBeforeMonth(y, m) ==
    IF m = 1 THEN 0 ELSE DaysBeforeMonth(y, m - 1) + DaysInMonth(y, m - 1)

ToOrdinal(y, m, d) == DaysBeforeYear(y) + DaysBeforeMonth(y, m) + d

\* the year that holds day number n
YearOf(n) ==
    CHOOSE y \in (n \div 366)..(n \div 365 + 1) :
        DaysBeforeYear(y) < n /\ n <= DaysBeforeYear(y + 1)

\* the month of year y that holds the year's day number r
MonthOf(r, y) ==
    CHOOSE m \in 1..12 :
        DaysBeforeMonth(y, m) < r /\ r <= DaysBeforeMonth(y, m) + DaysInMonth(y, m)

FromOrdinal(n) ==
    Eval(YearOf(n), LAMBDA y :
        Eval(MonthOf(n - DaysBeforeYear(y), y), LAMBDA m :
            [year |-> y, month |-> m,
             day |-> n - DaysBeforeYear(y) - DaysBeforeMonth(y, m)]))

IsoFormat(dt) ==
    Pad(dt.year, 4) \o "-" \o Pad(dt.month, 2) \o "-" \o Pad(dt.day, 2)

----------------------------------------------------------------------------
(* Row synthesis.  One row consumes five draws of the stream, in the order *)
(* first name, last name, department, salary, hire date.                   *)

DATE_START == ToOrdinal(2010, 1, 1)
DATE_END == ToOrdinal(2024, 12, 31)

RECURSIVE Draw(_, _)
Draw(s, k) == IF k = 1 THEN RngStep(s) ELSE RngStep(Draw(s, k - 1))

DrawsPerRow == 5

RandDate(s) ==
    Eval(RandInt(DATE_START, DATE_END, s), LAMBDA n :
        Eval(FromOrdinal(n), IsoFormat))

MakeRow(id, s) ==
    LET name == Choice(FIRST_NAMES, Draw(s, 1)) \o " "
                    \o Choice(LAST_NAMES, Draw(s, 2))
        dept == Choice(DEPARTMENTS, Draw(s, 3))
        salary == RandInt(SALARY_MIN, SALARY_MAX, Draw(s, 4))
        hire_date == RandDate(Draw(s, 5))
    IN  IntToStr(id) \o "," \o name \o "," \o dept \o "," \o IntToStr(salary)
            \o "," \o hire_date \o "\n"

RngAfterRow(s) == Draw(s, DrawsPerRow)

ByteLen(str) == Len(str)

----------------------------------------------------------------------------
(* The buffer and the file object *)

RECURSIVE Join(_)
Join(rows) == IF rows = <<>> THEN "" ELSE Head(rows) \o Join(Tail(rows))

GetSize == Len(disk)

\* mutant: stops one byte early
OvershootsAtTarget(current_size, row_bytes) ==
    current_size + buf_bytes + row_bytes >= target_bytes

\* mutant: charges the header to the budget a second time
OvershootsCountingHeader(current_size, row_bytes) ==
    Len(HEADER) + current_size + buf_bytes + row_bytes > target_bytes

Overshoots(current_size, row_bytes) ==
    current_size + buf_bytes + row_bytes > target_bytes

\* mutant: the counter is advanced twice
NextIdSkip(id) == id + 2

NextId(id) == id + 1

\* mutant: the threshold is compared with the number of buffered rows
ThresholdReachedByRows == Len(buf) >= flush_bytes

ThresholdReached == buf_bytes >= flush_bytes

\* mutant: buf.clear() is forgotten
WriteAndFlushKeepingBuf ==
    /\ disk' = disk \o fbuf \o Join(buf)
    /\ fbuf' = ""
    /\ buf' = buf
    /\ buf_bytes' = 0

\* mutant: the flush replaces the file's content instead of appending to it
WriteAndFlushOverwriting ==
    /\ disk' = fbuf \o Join(buf)
    /\ fbuf' = ""
    /\ buf' = <<>>
    /\ buf_bytes' = 0

\* mutant: buf_bytes = 0 is forgotten
WriteAndFlushKeepingCount ==
    /\ disk' = disk \o fbuf \o Join(buf)
    /\ fbuf' = ""
    /\ buf' = <<>>
    /\ buf_bytes' = buf_bytes

\* f.write("".join(buf)); buf.clear(); buf_bytes = 0; f.flush()
WriteAndFlush ==
    /\ disk' = disk \o fbuf \o Join(buf)
    /\ fbuf' = ""
    /\ buf' = <<>>
    /\ buf_bytes' = 0

----------------------------------------------------------------------------
(* The steps of main() *)

inputs == <<target_bytes, flush_bytes, seed>>
history == <<runNo, prevDisk, prevTrace, prevFlush>>

Init ==
    /\ target_bytes \in Targets
    /\ flush_bytes \in FlushChoices
    /\ seed \in Seeds
    /\ pc = "start"
    /\ rng = 0
    /\ disk = ""
    /\ fbuf = ""
    /\ i = 0
    /\ buf = <<>>
    /\ buf_bytes = 0
    /\ row = ""
    /\ candidates = <<>>
    /\ accepted = <<>>
    /\ trace = <<>>
    /\ runNo = 1
    /\ prevDisk = ""
    /\ prevTrace = <<>>
    /\ prevFlush = 0

\* rng = random.Random(args.seed); open(args.out, "w") creates or truncates
Open ==
    /\ pc = "start"
    /\ rng' = SeedRng(seed)
    /\ disk' = ""
    /\ fbuf' = ""
    /\ pc' = "opened"
    /\ UNCHANGED <<inputs, i, buf, buf_bytes, row, candidates, accepted, trace,
                   history>>

\* mutant: the header is written only when it fits the target
WriteHeaderIfFits ==
    /\ pc = "opened"
    /\ fbuf' = IF Len(HEADER) <= target_bytes THEN fbuf \o HEADER ELSE fbuf
    /\ i' = 1
    /\ buf' = <<>>
    /\ buf_bytes' = 0
    /\ pc' = "loop"
    /\ UNCHANGED <<inputs, rng, disk, row, candidates, accepted, trace, history>>

\* f.write(header); i = 1; buf = []; buf_bytes = 0
WriteHeader ==
    /\ pc = "opened"
    /\ fbuf' = fbuf \o HEADER
    /\ i' = 1
    /\ buf' = <<>>
    /\ buf_bytes' = 0
    /\ pc' = "loop"
    /\ UNCHANGED <<inputs, rng, disk, row, candidates, accepted, trace, history>>

\* one pass of the loop head that ends in buf.append(row)
Accept ==
    /\ pc = "loop"
    /\ LET current_size == GetSize
           cand == MakeRow(i, rng)
           row_bytes == ByteLen(cand)
       IN  /\ ~Overshoots(current_size, row_bytes)
           /\ row' = cand
           /\ candidates' = Append(candidates, cand)
           /\ buf' = Append(buf, cand)
           /\ buf_bytes' = buf_bytes + row_bytes
           /\ accepted' = Append(accepted, cand)
    /\ rng' = RngAfterRow(rng)
    /\ i' = NextId(i)
    /\ trace' = Append(trace, "accept")
    /\ pc' = "appended"
    /\ UNCHANGED <<inputs, disk, fbuf, history>>

\* mutant: the id counter is advanced for the discarded candidate too
StopAdvancingId ==
    /\ pc = "loop"
    /\ LET current_size == GetSize
           cand == MakeRow(i, rng)
           row_bytes == ByteLen(cand)
       IN  /\ Overshoots(current_size, row_bytes)
           /\ row' = cand
           /\ candidates' = Append(candidates, cand)
    /\ rng' = RngAfterRow(rng)
    /\ i' = NextId(i)
    /\ IF buf # <<>>
       THEN WriteAndFlush
       ELSE UNCHANGED <<disk, fbuf, buf, buf_bytes>>
    /\ trace' = Append(trace, "stop")
    /\ pc' = "broke"
    /\ UNCHANGED <<inputs, accepted, history>>

\* one pass of the loop head that ends in break
Stop ==
    /\ pc = "loop"
    /\ LET current_size == GetSize
           cand == MakeRow(i, rng)
           row_bytes == ByteLen(cand)
       IN  /\ Overshoots(current_size, row_bytes)
           /\ row' = cand
           /\ candidates' = Append(candidates, cand)
    /\ rng' = RngAfterRow(rng)
    /\ IF buf # <<>>
       THEN WriteAndFlush
       ELSE UNCHANGED <<disk, fbuf, buf, buf_bytes>>
    /\ trace' = Append(trace, "stop")
    /\ pc' = "broke"
    /\ UNCHANGED <<inputs, i, accepted, history>>

\* if buf_bytes >= args.flush_bytes: write, clear, flush
ThresholdFlush ==
    /\ pc = "appended"
    /\ ThresholdReached
    /\ WriteAndFlush
    /\ trace' = Append(trace, "flush")
    /\ pc' = "loop"
    /\ UNCHANGED <<inputs, rng, i, row, candidates, accepted, history>>

NoFlush ==
    /\ pc = "appended"
    /\ ~ThresholdReached
    /\ pc' = "loop"
    /\ UNCHANGED <<inputs, rng, disk, fbuf, i, buf, buf_bytes, row, candidates,
                   accepted, trace, history>>

\* leaving the with block closes f, which flushes what f still holds
Close ==
    /\ pc = "broke"
    /\ disk' = disk \o fbuf
    /\ fbuf' = ""
    /\ pc' = "done"
    /\ UNCHANGED <<inputs, rng, i, buf, buf_bytes, row, candidates, accepted,
                   trace, history>>

\* the program is invoked again on the same output path, with the same seed
\* and target and any flush threshold
Rerun ==
    /\ pc = "done"
    /\ runNo = 1
    /\ runNo' = runNo + 1
    /\ prevDisk' = disk
    /\ prevTrace' = trace
    /\ prevFlush' = flush_bytes
    /\ flush_bytes' \in FlushChoices
    /\ pc' = "start"
    /\ rng' = 0
    /\ i' = 0
    /\ buf' = <<>>
    /\ buf_bytes' = 0
    /\ row' = ""
    /\ candidates' = <<>>
    /\ accepted' = <<>>
    /\ trace' = <<>>
    /\ UNCHANGED <<target_bytes, seed, disk, fbuf>>

Next ==
    \/ Open
    \/ WriteHeader
    \/ Accept
    \/ Stop
    \/ ThresholdFlush
    \/ NoFlush
    \/ Close

Spec == Init /\ [][Next]_vars

NextRerun == Next \/ Rerun

SpecRerun == Init /\ [][NextRerun]_vars

----------------------------------------------------------------------------
(* Write and flush failures.  f.write / f.flush raise OSError when the     *)
(* operating system refuses bytes; nothing in main() catches it, so the    *)
(* exception leaves the loop, the with block closes f (which tries once    *)
(* more to hand over what f still holds) and the process ends.  How many   *)
(* of the pending bytes the failing call got onto the disk is the          *)
(* environment's choice.                                                   *)

FailCuts(data) == {0, Len(data) \div 2}

\* the failing call leaves the first k pending bytes on disk, the rest in f;
\* buf is still full when f.write raised and already cleared when f.flush did
FailedWriteAndFlush ==
    \E k \in FailCuts(fbuf \o Join(buf)), inWrite \in BOOLEAN :
        LET data == fbuf \o Join(buf)
        IN  /\ disk' = disk \o SubSeq(data, 1, k)
            /\ fbuf' = SubSeq(data, k + 1, Len(data))
            /\ buf' = IF inWrite THEN buf ELSE <<>>
            /\ buf_bytes' = IF inWrite THEN buf_bytes ELSE 0

\* the threshold flush raises
ThresholdFlushFails ==
    /\ pc = "appended"
    /\ ThresholdReached
    /\ FailedWriteAndFlush
    /\ trace' = Append(trace, "fail")
    /\ pc' = "failed"
    /\ UNCHANGED <<inputs, rng, i, row, candidates, accepted, history>>

\* the flush of the overshoot branch raises
StopFlushFails ==
    /\ pc = "loop"
    /\ buf # <<>>
    /\ LET current_size == GetSize
           cand == MakeRow(i, rng)
           row_bytes == ByteLen(cand)
       IN  /\ Overshoots(current_size, row_bytes)
           /\ row' = cand
           /\ candidates' = Append(candidates, cand)
    /\ rng' = RngAfterRow(rng)
    /\ FailedWriteAndFlush
    /\ trace' = Append(trace, "fail")
    /\ pc' = "failed"
    /\ UNCHANGED <<inputs, i, accepted, history>>

\* the flush inside the closing of f raises after a normal break
CloseFails ==
    /\ pc = "broke"
    /\ fbuf # ""
    /\ \E k \in FailCuts(fbuf) :
           /\ disk' = disk \o SubSeq(fbuf, 1, k)
           /\ fbuf' = SubSeq(fbuf, k + 1, Len(fbuf))
    /\ trace' = Append(trace, "fail")
    /\ pc' = "aborted"
    /\ UNCHANGED <<inputs, rng, i, buf, buf_bytes, row, candidates, accepted,
                   history>>

\* mutant: the exception is swallowed and the loop goes on
UnwindRetrying ==
    /\ pc = "failed"
    /\ pc' = "appended"
    /\ UNCHANGED <<inputs, rng, disk, fbuf, i, buf, buf_bytes, row, candidates,
                   accepted, trace, history>>

\* the exception leaves the with block: f is closed, which hands over what
\* f still holds or fails again, and the process ends with a traceback
Unwind ==
    /\ pc = "failed"
    /\ \E k \in FailCuts(fbuf) \cup {Len(fbuf)} :
           /\ disk' = disk \o SubSeq(fbuf, 1, k)
           /\ fbuf' = SubSeq(fbuf, k + 1, Len(fbuf))
    /\ pc' = "aborted"
    /\ UNCHANGED <<inputs, rng, i, buf, buf_bytes, row, candidates, accepted,
                   trace, history>>

NextFail ==
    \/ Next
    \/ ThresholdFlushFails
    \/ StopFlushFails
    \/ CloseFails
    \/ Unwind

SpecFail == Init /\ [][NextFail]_vars

\* the program keeps executing until it has ended
SpecLive == Spec /\ WF_vars(Next)

----------------------------------------------------------------------------
(* Reading a generated file back: lines, fields, integers *)

RECURSIVE Find(_, _, _)
Find(str, ch, k) ==
    IF k > Len(str) THEN 0
    ELSE IF SubSeq(str, k, k) = ch THEN k
    ELSE Find(str, ch, k + 1)

\* the newline-terminated lines of str, each without its terminator
RECURSIVE Lines(_)
Lines(str) ==
    IF str = "" THEN <<>>
    ELSE LET k == Find(str, "\n", 1)
         IN  IF k = 0 THEN <<str>>
             ELSE <<SubSeq(str, 1, k - 1)>> \o Lines(SubSeq(str, k + 1, Len(str)))

FirstField(line) ==
    LET k == Find(line, ",", 1)
    IN  IF k = 0 THEN line ELSE SubSeq(line, 1, k - 1)

IsDigit(ch) == \E d \in 0..9 : DigitChar(d) = ch

DigitVal(ch) == CHOOSE d \in 0..9 : DigitChar(d) = ch

\* the value of a non-empty string of decimal digits, and -1 for anything else
RECURSIVE StrToInt(_)
StrToInt(str) ==
    IF str = "" THEN 0 - 1
    ELSE LET last == SubSeq(str, Len(str), Len(str))
             init == SubSeq(str, 1, Len(str) - 1)
         IN  IF ~IsDigit(last) THEN 0 - 1
             ELSE IF init = "" THEN DigitVal(last)
             ELSE IF StrToInt(init) < 0 THEN 0 - 1
             ELSE 10 * StrToInt(init) + DigitVal(last)

HeaderLine == SubSeq(HEADER, 1, Len(HEADER) - 1)

DataLines(str) == Tail(Lines(str))

MinLen(pool) ==
    CHOOSE n \in {Len(pool[k]) : k \in 1..Len(pool)} :
        \A k \in 1..Len(pool) : n <= Len(pool[k])

\* the shortest row _make_row can produce: id 1, shortest names and
\* department, a five-digit salary, a ten-character date, four commas, one
\* space and the newline
MinRowLen ==
    Len(IntToStr(1)) + MinLen(FIRST_NAMES) + MinLen(LAST_NAMES)
        + MinLen(DEPARTMENTS) + Len(IntToStr(SALARY_MIN)) + Len("2010-01-01")
        + Len(",,,, \n")

Finished == pc = "done"

----------------------------------------------------------------------------
(* Claims *)

\* C1: for every seed, flush threshold and target >= the header's length,
\* the size of the output file after the run has finished is <= the target.
C1_FinalSizeWithinTarget ==
    (Finished /\ target_bytes >= Len(HEADER)) => Len(disk) <= target_bytes

\* C2: with target >= the header's length, in every state after the header
\* write the size of the file on disk plus the bytes of the rows held in the
\* buffer is <= the target.
C2_DiskPlusBufferWithinTarget ==
    (pc \in {"loop", "appended", "broke", "done"} /\ target_bytes >= Len(HEADER))
        => Len(disk) + Len(Join(buf)) <= target_bytes

\* C3: the loop stops only when the next row would overshoot: on termination
\* the final file size plus the length of the discarded candidate exceeds the
\* target, and every candidate generated before it was accepted.
C3_StopsOnlyOnOvershoot ==
    Finished =>
        /\ Len(disk) + Len(row) > target_bytes
        /\ candidates = Append(accepted, row)

C3_Witness ==
    /\ Finished
    /\ Len(accepted) >= 1
    /\ Len(disk) + Len(row) = target_bytes + 1

\* C4: when the target equals the header's length exactly, the final file
\* contains only the header line.
C4_HeaderOnlyAtHeaderTarget ==
    (Finished /\ target_bytes = Len(HEADER)) => disk = HEADER

C6_HeaderFirstAndOnce ==
    Finished =>
        /\ Len(disk) >= Len(HEADER)
        /\ SubSeq(disk, 1, Len(HEADER)) = HEADER
        /\ Lines(disk)[1] = "employee_id,name,department,salary,hire_date"
        /\ Cardinality({k \in 1..Len(Lines(disk)) : Lines(disk)[k] = HeaderLine}) = 1

C6_Witness ==
    /\ Finished
    /\ target_bytes < Len(HEADER)
    /\ Lines(disk) = <<HeaderLine>>

\* C7: the ids of the data rows of the final file are exactly 1, 2, ..., n in
\* file order, n the number of accepted rows; the id counter is advanced once
\* per accepted row and not for the discarded candidate.
C7_IdsSequential ==
    /\ pc \in {"loop", "appended", "broke", "done"} => i = Len(accepted) + 1
    /\ Finished =>
        LET rows == DataLines(disk)
        IN  /\ Len(rows) = Len(accepted)
            /\ \A k \in 1..Len(rows) : StrToInt(FirstField(rows[k])) = k

C7_Witness ==
    /\ Finished
    /\ Len(DataLines(disk)) >= 3
    /\ StrToInt(FirstField(DataLines(disk)[3])) = 3
    /\ i = 4

\* C8: on termination the output is fully flushed: the buffer is empty and
\* the file is the header followed by every accepted row, each once and in
\* acceptance order; the only generated row absent from the file is the
\* discarded candidate.  This holds for every flush threshold, 1 included.
C8_FullyFlushed ==
    Finished =>
        /\ buf = <<>>
        /\ buf_bytes = 0
        /\ fbuf = ""
        /\ disk = HEADER \o Join(accepted)
        /\ candidates = Append(accepted, row)

C8_Witness ==
    /\ Finished
    /\ flush_bytes = 1
    /\ Len(accepted) >= 2
    /\ disk = HEADER \o Join(accepted)

\* C9: two runs with the same seed, target and flush threshold go through the
\* same sequence of accept / flush / stop steps and leave byte-identical
\* files.
C9_Deterministic ==
    (Finished /\ runNo = 2 /\ flush_bytes = prevFlush)
        => /\ disk = prevDisk
           /\ trace = prevTrace

C9_Witness ==
    /\ Finished
    /\ runNo = 2
    /\ flush_bytes = prevFlush
    /\ Len(accepted) >= 2
    /\ disk = prevDisk

\* C10: for a fixed seed and target, runs with any two flush thresholds
\* accept the same rows and produce the same final file.
C10_FlushThresholdIrrelevant ==
    (Finished /\ runNo = 2) => disk = prevDisk

----------------------------------------------------------------------------
(* Further measures of a run *)

RECURSIVE SumLen(_)
SumLen(rows) == IF rows = <<>> THEN 0 ELSE Len(Head(rows)) + SumLen(Tail(rows))

Max(a, b) == IF a >= b THEN a ELSE b

MaxLen(pool) ==
    CHOOSE n \in {Len(pool[k]) : k \in 1..Len(pool)} :
        \A k \in 1..Len(pool) : n >= Len(pool[k])

\* the longest row _make_row can produce for the given id
MaxRowLen(id) ==
    Len(IntToStr(id)) + MaxLen(FIRST_NAMES) + MaxLen(LAST_NAMES)
        + MaxLen(DEPARTMENTS) + Len(IntToStr(SALARY_MAX)) + Len("2010-01-01")
        + Len(",,,, \n")

Count(steps, what) == Cardinality({k \in 1..Len(steps) : steps[k] = what})

LastStep == IF trace = <<>> THEN "" ELSE trace[Len(trace)]

\* the stream's state after n rows have been drawn from state s
RECURSIVE RngAfterRows(_, _)
RngAfterRows(s, n) == IF n = 0 THEN s ELSE RngAfterRows(RngAfterRow(s), n - 1)

IsPrefix(a, b) == Len(a) <= Len(b) /\ SubSeq(b, 1, Len(a)) = a

InLoop == pc \in {"loop", "appended", "broke", "done"}

\* the rows already handed to f.write; the rest of accepted is still in buf
FlushedRows == SubSeq(accepted, 1, Len(accepted) - Len(buf))

----------------------------------------------------------------------------
(* Claims, continued *)

\* C11: the file size queried at the top of every loop iteration is the true
\* count of bytes already written: the header length plus the total byte
\* length of all rows flushed so far (what an in-memory counter initialised
\* to the header length and increased at every flush would hold).
C11_QueriedSizeIsBytesWritten ==
    pc = "loop" => GetSize = Len(HEADER) + SumLen(FlushedRows)

\* C12: right after a row is accepted, buf_bytes >= F makes the whole buffer
\* be written and cleared and buf_bytes reset.  So at every loop head
\* buf_bytes < max(F, 1), the buffer is empty there when F <= 1 (one flush
\* per accepted row), and the buffered bytes never exceed
\* max(F, 1) - 1 + the largest row length, whatever the target.
C12_FlushTrigger ==
    /\ pc = "loop" => buf_bytes < Max(flush_bytes, 1)
    /\ (pc = "loop" /\ flush_bytes <= 1)
           => /\ buf = <<>>
              /\ Count(trace, "flush") = Count(trace, "accept")
    /\ (pc = "loop" /\ LastStep = "flush")
           => /\ buf = <<>>
              /\ buf_bytes = 0
              /\ disk = HEADER \o Join(accepted)
    /\ InLoop
           => /\ buf_bytes <= Max(flush_bytes, 1) - 1 + MaxRowLen(i)
              /\ SumLen(buf) <= Max(flush_bytes, 1) - 1 + MaxRowLen(i)

C12_Witness ==
    /\ pc = "loop"
    /\ LastStep = "flush"
    /\ flush_bytes > 1
    /\ Len(accepted) >= 2
    /\ Count(trace, "flush") = 1

\* C13: exactly one candidate is discarded per run and it is the last one
\* generated: from the overshoot on no candidate is generated, no draw is
\* made and the id counter stays, so on termination candidates = accepted + 1
\* and the id counter = accepted + 1.  A row appended to the buffer leaves it
\* only by being written to the file.
C13_OneDiscardCheckBeforeAppend ==
    /\ pc \in {"broke", "done"}
           => /\ Len(candidates) = Len(accepted) + 1
              /\ candidates = Append(accepted, row)
              /\ i = Len(accepted) + 1
              /\ rng = RngAfterRows(SeedRng(seed), Len(candidates))
    /\ pc \in {"loop", "appended"}
           => /\ candidates = accepted
              /\ rng = RngAfterRows(SeedRng(seed), Len(candidates))
    /\ InLoop => disk \o fbuf \o Join(buf) = HEADER \o Join(accepted)

C13_Witness ==
    /\ Finished
    /\ Len(accepted) >= 2
    /\ Len(candidates) = 3
    /\ i = 3

\* C14: at every point of the run the content of the file on disk is a valid
\* prefix of the final file: the complete header line followed by zero or
\* more complete rows with ids 1..k; never a file without the header and
\* never a row that was not accepted.
C14_DiskIsValidPrefix ==
    InLoop =>
        \E k \in 0..Len(accepted) : disk = HEADER \o Join(SubSeq(accepted, 1, k))

\* C17: in every reachable state buf_bytes is the sum of the byte lengths of
\* the rows held in buf; buf is empty exactly when buf_bytes = 0; after every
\* flush (threshold or final) buf is empty and buf_bytes = 0.
C17_BufBytesIsBufferSize ==
    /\ buf_bytes = SumLen(buf)
    /\ buf = <<>> <=> buf_bytes = 0
    /\ (LastStep \in {"flush", "stop"}) => (buf = <<>> /\ buf_bytes = 0)

C17_Witness ==
    /\ pc = "appended"
    /\ Len(buf) >= 2
    /\ buf_bytes = Len(buf[1]) + Len(buf[2])

Failed == pc \in {"failed", "aborted"}

\* C15: a write or flush failure is fatal and not retried: from the failing
\* step on the run is aborting or aborted, no candidate is generated or
\* accepted, the loop does not attempt the write again, and the partially
\* written file is neither deleted nor truncated.
C15_FailureIsFatal ==
    [][/\ Failed'
           => /\ IsPrefix(disk, disk')
              /\ accepted' = accepted
              /\ i' = i
       /\ Failed
           => /\ Failed'
              /\ UNCHANGED <<candidates, accepted, i, rng, buf, buf_bytes, trace>>
              /\ Count(trace', "fail") = 1]_vars

C15_Witness ==
    /\ pc = "aborted"
    /\ LastStep = "fail"
    /\ Len(accepted) >= 2
    /\ Count(trace, "flush") >= 1
    /\ IsPrefix(HEADER, disk)
    /\ fbuf # ""

\* C16: for every target, flush threshold and seed the loop eventually
\* reaches the overshoot branch and the run ends, because every accepted row
\* adds a positive number of bytes to (queried file size + buf_bytes) and a
\* flush never decreases that sum; for a target <= 0 it stops on the first
\* candidate.
C16_Terminates ==
    /\ <>Finished
    /\ [][/\ (pc = "loop" /\ pc' = "appended")
              => Len(disk') + buf_bytes' > Len(disk) + buf_bytes
          /\ (pc = "appended" /\ pc' = "loop")
              => Len(disk') + buf_bytes' >= Len(disk) + buf_bytes]_vars
    /\ []((InLoop /\ target_bytes <= 0) => accepted = <<>>)
    /\ []((Finished /\ target_bytes <= 0) => Len(candidates) = 1)

C16_Witness ==
    /\ Finished
    /\ flush_bytes <= 0
    /\ Len(accepted) >= 2
    /\ Count(trace, "flush") = 2

====
